---- MODULE Spec2Model ----
(***************************************************************************)
(* cookie-monster (src/index.js): a sessionStorage-like facade over a      *)
(* cookie line.  bake(doc, options) returns getItem / setItem / removeItem *)
(* / clear, built on the private primitives read() and write().            *)
(*                                                                         *)
(* A JavaScript string is modelled as the sequence of its UTF-16 code      *)
(* units (naturals).  encodeURIComponent and decodeURIComponent are        *)
(* modelled as ECMAScript defines them (Encode / Decode of the URI         *)
(* handling functions), including the URIError they raise.                 *)
(***************************************************************************)
EXTENDS Integers, Sequences, FiniteSets, TLC

-----------------------------------------------------------------------------
(* String literals: S(<<"a", "=", "1">>) is the string "a=1".              *)

\* The printable ASCII characters U+0020..U+005F and U+0061..U+007E.
AsciiLow ==
  <<" ", "!", "\"", "#", "$", "%", "&", "'", "(", ")", "*", "+", ",", "-", ".", "/",
    "0", "1", "2", "3", "4", "5", "6", "7", "8", "9", ":", ";", "<", "=", ">", "?",
    "@", "A", "B", "C", "D", "E", "F", "G", "H", "I", "J", "K", "L", "M", "N", "O",
    "P", "Q", "R", "S", "T", "U", "V", "W", "X", "Y", "Z", "[", "\\", "]", "^", "_">>

AsciiHigh ==
  <<"a", "b", "c", "d", "e", "f", "g", "h", "i", "j", "k", "l", "m", "n", "o",
    "p", "q", "r", "s", "t", "u", "v", "w", "x", "y", "z", "{", "|", "}", "~">>

\* The code unit of a printable ASCII character.
Code(c) ==
  IF \E i \in 1..Len(AsciiLow) : AsciiLow[i] = c
  THEN 31 + (CHOOSE i \in 1..Len(AsciiLow) : AsciiLow[i] = c)
  ELSE 96 + (CHOOSE i \in 1..Len(AsciiHigh) : AsciiHigh[i] = c)

S(t) == [i \in 1..Len(t) |-> Code(t[i])]

Semicolon == Code(";")
Equals    == Code("=")
Percent   == Code("%")

\* Code units outside ASCII used as inputs: U+00E9 (two UTF-8 octets), and the
\* surrogate pair of U+1F600 (four UTF-8 octets), each half of which alone is
\* an unpaired surrogate.
EAcute  == 192 + 41
HighSur == 216 * 256 + 61
LowSur  == 222 * 256

-----------------------------------------------------------------------------
(* JavaScript values: a type tag (the result of typeof) and, for a string, *)
(* its code units; for other values s holds the text of the literal.       *)

Str(s)    == [t |-> "string", s |-> s]
Undefined == [t |-> "undefined", s |-> <<>>]
Null      == [t |-> "object", s |-> S(<<"n", "u", "l", "l">>)]
JSFalse   == [t |-> "boolean", s |-> S(<<"f", "a", "l", "s", "e">>)]
JSTrue    == [t |-> "boolean", s |-> S(<<"t", "r", "u", "e">>)]
Num42     == [t |-> "number", s |-> S(<<"4", "2">>)]

\* An object whose property cookie is c (Undefined: no such property).
Obj(c) ==
  [t |-> "object",
   s |-> S(<<"[", "o", "b", "j", "e", "c", "t", " ", "O", "b", "j", "e", "c",
             "t", "]">>),
   cookie |-> c]

IsNull(x) == x.t = "object" /\ x.s = Null.s

\* x.cookie of a value that is neither null nor undefined: a primitive has
\* no such property.
CookieOf(x) == IF x.t = "object" /\ ~IsNull(x) THEN x.cookie ELSE Undefined

\* ToBoolean, for the values above.
Truthy(x) ==
  CASE x.t = "string"    -> x.s # <<>>
    [] x.t = "boolean"   -> x = JSTrue
    [] x.t = "number"    -> TRUE
    [] x.t = "object"    -> ~IsNull(x)
    [] OTHER             -> FALSE

-----------------------------------------------------------------------------
(* String.prototype.indexOf / slice / split('=')[0], and the split on      *)
(* the splitter /;\s*/.                                                    *)

Min(a, b) == IF a < b THEN a ELSE b
Max(a, b) == IF a > b THEN a ELSE b

\* s.indexOf(c): the 0-based index of the first c, or -1.
IndexOf(s, c) ==
  IF \E i \in 1..Len(s) : s[i] = c
  THEN (CHOOSE i \in 1..Len(s) : s[i] = c /\ \A j \in 1..(i - 1) : s[j] # c) - 1
  ELSE -1

\* A relative index of slice: negative counts from the end, clamped to 0..len.
RelIndex(n, len) == IF n < 0 THEN Max(len + n, 0) ELSE Min(n, len)

\* s.slice(from, to), 0-based, to exclusive.
Slice(s, from, to) ==
  SubSeq(s, RelIndex(from, Len(s)) + 1, RelIndex(to, Len(s)))

\* s.slice(from)
SliceFrom(s, from) == Slice(s, from, Len(s))

\* s.split('=')[0]: the text before the first '=', or all of s.
SplitEqFirst(s) ==
  IF IndexOf(s, Equals) = -1 THEN s ELSE SubSeq(s, 1, IndexOf(s, Equals))

\* \s of a JavaScript regular expression.
WhiteSpace ==
  {9, 10, 11, 12, 13, 32, 160, 5760, 8232, 8233, 8239, 8287, 12288, 65279}
    \cup (8192..8202)

RECURSIVE SkipSpace(_, _)
SkipSpace(s, i) ==
  IF i <= Len(s) /\ s[i] \in WhiteSpace THEN SkipSpace(s, i + 1) ELSE i

\* line.split(/;\s*/): cut at every ';', dropping the white space after it.
RECURSIVE SplitFrom(_, _, _, _)
SplitFrom(s, i, cur, acc) ==
  IF i > Len(s) THEN Append(acc, cur)
  ELSE IF s[i] = Semicolon
       THEN SplitFrom(s, SkipSpace(s, i + 1), <<>>, Append(acc, cur))
       ELSE SplitFrom(s, i + 1, Append(cur, s[i]), acc)

splitter(line) == SplitFrom(line, 1, <<>>, <<>>)

-----------------------------------------------------------------------------
(* encodeURIComponent and decodeURIComponent (ECMAScript Encode / Decode). *)
(* Both yield [ok, s]: ok = FALSE is a raised URIError.                    *)

URIError(s) == [ok |-> FALSE, s |-> <<>>]
Ok(s)       == [ok |-> TRUE, s |-> s]

\* uriUnescaped: letters, digits and - _ . ! ~ * ' ( )
Unreserved ==
  (Code("A")..Code("Z")) \cup (Code("a")..Code("z")) \cup (Code("0")..Code("9"))
    \cup {Code("-"), Code("_"), Code("."), Code("!"), Code("~"), Code("*"),
          Code("'"), Code("("), Code(")")}

IsHighSurrogate(c) == c >= 216 * 256 /\ c < 220 * 256
IsLowSurrogate(c)  == c >= 220 * 256 /\ c < 224 * 256

\* The UTF-8 octets of a code point.
UTF8(cp) ==
  IF cp < 128 THEN <<cp>>
  ELSE IF cp < 2048 THEN <<192 + (cp \div 64), 128 + (cp % 64)>>
  ELSE IF cp < 65536
       THEN <<224 + (cp \div 4096), 128 + ((cp \div 64) % 64), 128 + (cp % 64)>>
       ELSE <<240 + (cp \div 262144), 128 + ((cp \div 4096) % 64),
              128 + ((cp \div 64) % 64), 128 + (cp % 64)>>

\* An upper-case hexadecimal digit, as a code unit.
HexDigit(n) == IF n < 10 THEN Code("0") + n ELSE Code("A") + (n - 10)

\* "%XX" for every octet.
RECURSIVE Escape(_)
Escape(octets) ==
  IF octets = <<>> THEN <<>>
  ELSE <<Percent, HexDigit(Head(octets) \div 16), HexDigit(Head(octets) % 16)>>
         \o Escape(Tail(octets))

RECURSIVE EncodeFrom(_, _, _)
EncodeFrom(s, k, R) ==
  IF k > Len(s) THEN Ok(R)
  ELSE IF s[k] \in Unreserved THEN EncodeFrom(s, k + 1, Append(R, s[k]))
  ELSE IF IsLowSurrogate(s[k]) THEN URIError(s)
  ELSE IF IsHighSurrogate(s[k])
       THEN IF k + 1 > Len(s) \/ ~IsLowSurrogate(s[k + 1])
            THEN URIError(s)
            ELSE EncodeFrom(s, k + 2,
                   R \o Escape(UTF8((s[k] - 216 * 256) * 1024
                                    + (s[k + 1] - 220 * 256) + 65536)))
       ELSE EncodeFrom(s, k + 1, R \o Escape(UTF8(s[k])))

encodeURIComponent(s) == EncodeFrom(s, 1, <<>>)

\* The value of a hexadecimal digit, or -1.
HexVal(c) ==
  IF c >= Code("0") /\ c <= Code("9") THEN c - Code("0")
  ELSE IF c >= Code("A") /\ c <= Code("F") THEN c - Code("A") + 10
  ELSE IF c >= Code("a") /\ c <= Code("f") THEN c - Code("a") + 10
  ELSE -1

\* Is there an escape "%XX" at position i of s?
IsEscapeAt(s, i) ==
  /\ i + 2 <= Len(s)
  /\ s[i] = Percent
  /\ HexVal(s[i + 1]) >= 0
  /\ HexVal(s[i + 2]) >= 0

OctetAt(s, i) == 16 * HexVal(s[i + 1]) + HexVal(s[i + 2])

\* The number of octets a leading octet announces (0: not a leading octet).
OctetCount(B) ==
  IF B < 128 THEN 1
  ELSE IF B >= 192 /\ B < 224 THEN 2
  ELSE IF B >= 224 /\ B < 240 THEN 3
  ELSE IF B >= 240 /\ B < 248 THEN 4
  ELSE 0

\* The code point of n escaped octets at position i, or -1 when they are not
\* a valid UTF-8 encoding (bad continuation, overlong, surrogate, too large).
CodePointAt(s, i, n) ==
  LET B(j) == OctetAt(s, i + 3 * j)
      cont == \A j \in 1..(n - 1) :
                 IsEscapeAt(s, i + 3 * j) /\ B(j) >= 128 /\ B(j) < 192
      V == IF n = 2 THEN (B(0) - 192) * 64 + (B(1) - 128)
           ELSE IF n = 3
                THEN (B(0) - 224) * 4096 + (B(1) - 128) * 64 + (B(2) - 128)
                ELSE (B(0) - 240) * 262144 + (B(1) - 128) * 4096
                       + (B(2) - 128) * 64 + (B(3) - 128)
      least == IF n = 2 THEN 128 ELSE IF n = 3 THEN 2048 ELSE 65536
  IN  IF ~cont THEN -1
      ELSE IF V < least \/ V > 1114111 \/ (V >= 216 * 256 /\ V < 224 * 256)
           THEN -1
           ELSE V

\* The UTF-16 code units of a code point.
UTF16(V) ==
  IF V < 65536 THEN <<V>>
  ELSE <<216 * 256 + ((V - 65536) \div 1024), 220 * 256 + ((V - 65536) % 1024)>>

RECURSIVE DecodeFrom(_, _, _)
DecodeFrom(s, i, R) ==
  IF i > Len(s) THEN Ok(R)
  ELSE IF s[i] # Percent THEN DecodeFrom(s, i + 1, Append(R, s[i]))
  ELSE IF ~IsEscapeAt(s, i) THEN URIError(s)
  ELSE LET n == OctetCount(OctetAt(s, i))
       IN  IF n = 0 THEN URIError(s)
           ELSE IF n = 1 THEN DecodeFrom(s, i + 3, Append(R, OctetAt(s, i)))
           ELSE IF i + 3 * n - 1 > Len(s) THEN URIError(s)
           ELSE IF CodePointAt(s, i, n) = -1 THEN URIError(s)
           ELSE DecodeFrom(s, i + 3 * n, R \o UTF16(CodePointAt(s, i, n)))

decodeURIComponent(s) == DecodeFrom(s, 1, <<>>)

-----------------------------------------------------------------------------
(* The store.                                                              *)

VARIABLES
  cookie,       \* doc.cookie, the cookie line
  options,      \* [read, write]: is the hook options.read / options.write set
  hookEntries,  \* the array options.read() returns
  op,           \* the last call: [name, key, value, opts]
  ret,          \* what the last call returned
  threw,        \* TRUE when the last call raised a URIError instead
  cookies,      \* the array the last getItem / clear got from read()
  written,      \* the calls of write() the last call made: <<[cookie, meta]>>
  hookCalls     \* those of them that options.write received

vars == <<cookie, options, hookEntries, op, ret, threw, cookies, written, hookCalls>>

\* An options object {name: value, ...}: the sequence of its properties in
\* insertion order.  `name in opts` and opts.name:
HasOpt(opts, name) == \E i \in 1..Len(opts) : opts[i].k = name
GetOpt(opts, name) ==
  IF HasOpt(opts, name)
  THEN opts[CHOOSE i \in 1..Len(opts) : opts[i].k = name].v
  ELSE Undefined

\* ToString of a value, as string concatenation applies it.
ToStr(x) ==
  IF x.t = "undefined"
  THEN S(<<"u", "n", "d", "e", "f", "i", "n", "e", "d">>)
  ELSE x.s

\* bake(doc, options) where the global document is `document` (Undefined:
\* there is none): [ok, cookie], the cookie line the store starts with, or
\* ok = FALSE for the TypeError of reading document.cookie of null or of
\* assigning doc.cookie of a primitive in strict mode.
bake(doc, document) ==
  LET d == IF Truthy(doc) THEN doc
           ELSE IF document.t # "undefined" /\ CookieOf(document).t = "string"
                THEN document
                ELSE Obj(Undefined)
  IN  IF ~Truthy(doc) /\ IsNull(document) THEN [ok |-> FALSE, cookie |-> <<>>]
      ELSE IF d.t = "string" THEN [ok |-> TRUE, cookie |-> d.s]
      ELSE IF CookieOf(d).t = "string" THEN [ok |-> TRUE, cookie |-> CookieOf(d).s]
      ELSE IF d.t = "object" THEN [ok |-> TRUE, cookie |-> <<>>]
      ELSE [ok |-> FALSE, cookie |-> <<>>]

\* What an operation did: the new doc.cookie, the value returned (or the
\* URIError raised), the write() calls made and those the hook received.
Outcome(c, r, w, h) ==
  [cookie |-> c, ret |-> r, threw |-> FALSE, written |-> w, hook |-> h]
Raised(c, w, h) ==
  [cookie |-> c, ret |-> Undefined, threw |-> TRUE, written |-> w, hook |-> h]

read == IF options.read THEN hookEntries ELSE splitter(cookie)

\* A write that assigns the cookie line even when a hook is set.
writeAlwaysAssigns(cur, c, meta) ==
  IF options.write
  THEN Outcome(c, Undefined, <<[cookie |-> c, meta |-> meta]>>,
               <<[cookie |-> c, meta |-> meta]>>)
  ELSE Outcome(c, Str(c), <<[cookie |-> c, meta |-> meta]>>, <<>>)

\* write(cookie, meta) on the cookie line cur.  The hook collects the call
\* and returns nothing.
write(cur, c, meta) ==
  IF options.write
  THEN Outcome(cur, Undefined, <<[cookie |-> c, meta |-> meta]>>,
               <<[cookie |-> c, meta |-> meta]>>)
  ELSE Outcome(c, Str(c), <<[cookie |-> c, meta |-> meta]>>, <<>>)

\* The loop of getItem over cookies[i..]; key is a string.
RECURSIVE getItemFrom(_, _, _)
getItemFrom(cs, i, key) ==
  IF i > Len(cs) THEN Outcome(cookie, Undefined, <<>>, <<>>)
  ELSE LET index == IndexOf(cs[i], Equals)
           name  == decodeURIComponent(Slice(cs[i], 0, index))
           value == decodeURIComponent(SliceFrom(cs[i], index + 1))
       IN  IF ~name.ok THEN Raised(cookie, <<>>, <<>>)
           ELSE IF name.s = key
                THEN IF ~value.ok THEN Raised(cookie, <<>>, <<>>)
                     ELSE Outcome(cookie, Str(value.s), <<>>, <<>>)
                ELSE getItemFrom(cs, i + 1, key)

\* A getItem that returns the text after '=' as it stands, not decoded.
RECURSIVE getItemRawFrom(_, _, _)
getItemRawFrom(cs, i, key) ==
  IF i > Len(cs) THEN Outcome(cookie, Undefined, <<>>, <<>>)
  ELSE LET index == IndexOf(cs[i], Equals)
           name  == decodeURIComponent(Slice(cs[i], 0, index))
       IN  IF ~name.ok THEN Raised(cookie, <<>>, <<>>)
           ELSE IF name.s = key
                THEN Outcome(cookie, Str(SliceFrom(cs[i], index + 1)), <<>>, <<>>)
                ELSE getItemRawFrom(cs, i + 1, key)

getItemRaw(key) == getItemRawFrom(read, 1, key)

getItem(key) == getItemFrom(read, 1, key)

ExpiresSeg == S(<<";", " ", "e", "x", "p", "i", "r", "e", "s", "=">>)
PathSeg    == S(<<";", " ", "p", "a", "t", "h", "=">>)
DomainSeg  == S(<<";", " ", "d", "o", "m", "a", "i", "n", "=">>)
SecureSeg  == S(<<";", " ", "s", "e", "c", "u", "r", "e">>)

\* Attributes with domain ahead of path.
attributesDomainFirst(opts) ==
  (IF HasOpt(opts, "expires")
   THEN ExpiresSeg \o ToStr(GetOpt(opts, "expires")) ELSE <<>>)
  \o (IF HasOpt(opts, "domain")
      THEN DomainSeg \o ToStr(GetOpt(opts, "domain")) ELSE <<>>)
  \o (IF HasOpt(opts, "path")
      THEN PathSeg \o ToStr(GetOpt(opts, "path")) ELSE <<>>)
  \o (IF Truthy(GetOpt(opts, "secure")) THEN SecureSeg ELSE <<>>)

\* The attributes setItem appends to key=value.
attributes(opts) ==
  (IF HasOpt(opts, "expires")
   THEN ExpiresSeg \o ToStr(GetOpt(opts, "expires")) ELSE <<>>)
  \o (IF HasOpt(opts, "path")
      THEN PathSeg \o ToStr(GetOpt(opts, "path")) ELSE <<>>)
  \o (IF HasOpt(opts, "domain")
      THEN DomainSeg \o ToStr(GetOpt(opts, "domain")) ELSE <<>>)
  \o (IF Truthy(GetOpt(opts, "secure")) THEN SecureSeg ELSE <<>>)

\* A setItem that refuses only when neither key nor value is a string.
setItemLax(key, value, opts) ==
  IF key.t # "string" /\ value.t # "string"
  THEN Outcome(cookie, JSFalse, <<>>, <<>>)
  ELSE LET v == encodeURIComponent(ToStr(value))
           k == encodeURIComponent(ToStr(key))
       IN  IF ~v.ok \/ ~k.ok THEN Raised(cookie, <<>>, <<>>)
           ELSE write(cookie, k.s \o <<Equals>> \o v.s \o attributes(opts),
                      [remove |-> FALSE, value |-> v.s, opts |-> opts,
                       key |-> k.s])

\* setItem(key, value, opts); key and value are any values, opts an object
\* (no opts is <<>>, as the code makes it {}).
setItem(key, value, opts) ==
  IF key.t # "string" \/ value.t # "string"
  THEN Outcome(cookie, JSFalse, <<>>, <<>>)
  ELSE LET v == encodeURIComponent(value.s)
           k == encodeURIComponent(key.s)
       IN  IF ~v.ok \/ ~k.ok THEN Raised(cookie, <<>>, <<>>)
           ELSE write(cookie, k.s \o <<Equals>> \o v.s \o attributes(opts),
                      [remove |-> FALSE, value |-> v.s, opts |-> opts,
                       key |-> k.s])

ExpiredTail ==
  S(<<"=", ";", "e", "x", "p", "i", "r", "e", "s", "=", "T", "h", "u", ",",
      " ", "0", "1", " ", "J", "a", "n", " ", "1", "9", "7", "0", " ", "0",
      "0", ":", "0", "0", ":", "0", "1", " ", "G", "M", "T", ";">>)

\* A removeItem that percent-encodes the key, as setItem does.
removeItemEncoded(cur, key) ==
  write(cur, encodeURIComponent(key).s \o ExpiredTail,
        [remove |-> TRUE, value |-> <<>>, opts |-> <<>>,
         key |-> encodeURIComponent(key).s])

\* removeItem(key) on the cookie line cur; key is a string.
removeItem(cur, key) ==
  write(cur, key \o ExpiredTail,
        [remove |-> TRUE, value |-> <<>>, opts |-> <<>>, key |-> key])

\* The loop of clear over cookies[i..], st what it has done so far.
RECURSIVE clearFrom(_, _, _)
clearFrom(cs, i, st) ==
  IF i > Len(cs) THEN st
  ELSE LET name == decodeURIComponent(SplitEqFirst(cs[i]))
       IN  IF ~name.ok THEN Raised(st.cookie, st.written, st.hook)
           ELSE LET w == removeItem(st.cookie, name.s)
                IN  clearFrom(cs, i + 1,
                      Outcome(w.cookie, Undefined, st.written \o w.written,
                              st.hook \o w.hook))

\* A clear that reads the entries again before every removal.
RECURSIVE clearRereadingFrom(_, _)
clearRereadingFrom(i, st) ==
  LET cs == IF options.read THEN hookEntries ELSE splitter(st.cookie)
  IN  IF i > Len(cs) THEN st
      ELSE LET name == decodeURIComponent(SplitEqFirst(cs[i]))
           IN  IF ~name.ok THEN Raised(st.cookie, st.written, st.hook)
               ELSE LET w == removeItem(st.cookie, name.s)
                    IN  clearRereadingFrom(i + 1,
                          Outcome(w.cookie, Undefined, st.written \o w.written,
                                  st.hook \o w.hook))

clearRereading == clearRereadingFrom(1, Outcome(cookie, Undefined, <<>>, <<>>))

clear == clearFrom(read, 1, Outcome(cookie, Undefined, <<>>, <<>>))

-----------------------------------------------------------------------------
(* Inputs.                                                                 *)

MaxEntries == 3   \* entries of the cookie line (or read hook) at the start
MaxLen     == 2   \* code units of a value generated from ValueAlphabet
MaxOpts    == 4   \* properties of an options object of SpecFmt

\* All sequences over A of at most n elements.
SeqsUpTo(A, n) == UNION {[1..m -> A] : m \in 0..n}

\* Raw entries: well formed ones, a repeated name, one without '=', and a
\* name and a value that are no percent-encoding.
Entries ==
  { S(<<"a", "=", "1">>), S(<<"a", "=", "2">>), S(<<"b", "=", "2">>),
    S(<<"a", "b">>), S(<<"%", "=", "1">>), S(<<"a", "=", "%">>) }

Seeds == SeqsUpTo(Entries, MaxEntries)

\* The entries joined with "; ".
RECURSIVE Join(_)
Join(es) ==
  IF es = <<>> THEN <<>>
  ELSE IF Len(es) = 1 THEN es[1]
  ELSE es[1] \o S(<<";", " ">>) \o Join(Tail(es))

Keys ==
  { S(<<>>), S(<<"a">>), S(<<"b">>), S(<<"a", "b">>), S(<<"a", "=">>) }

ValueAlphabet == {Code(";"), Code("="), Code(" ")}

\* Strings without an unpaired surrogate, and strings with one.
WellFormed ==
  SeqsUpTo(ValueAlphabet, MaxLen)
    \cup { S(<<"1">>), S(<<"%">>), <<EAcute>>, <<HighSur, LowSur>> }
IllFormed == { <<HighSur>>, <<LowSur, HighSur>>, <<Code(";"), LowSur>> }

\* Options objects: none, one attribute, two supplied out of order.
FewOpts ==
  { <<>>,
    <<[k |-> "path", v |-> Str(S(<<"/">>))]>>,
    <<[k |-> "secure", v |-> JSTrue],
      [k |-> "expires", v |-> Str(S(<<"E">>))]>> }

\* Calls of setItem with a key or a value that is no string.
BadArgs ==
  { <<Num42, Str(S(<<"1">>)), <<>>>>,
    <<Str(S(<<"a">>)), Null, <<>>>>,
    <<Str(S(<<"a">>)), Undefined,
      <<[k |-> "path", v |-> Str(S(<<"/">>))]>>>>,
    <<Num42, Null, <<>>>> }

\* The calls of setItem of Spec.
SomeArgs ==
  BadArgs \cup
  { <<Str(S(<<"a">>)), Str(S(<<"1">>)), <<>>>>,
    <<Str(S(<<"b">>)), Str(S(<<";", " ">>)),
      <<[k |-> "path", v |-> Str(S(<<"/">>))]>>>>,
    <<Str(S(<<"a", "=">>)), Str(S(<<"=">>)),
      <<[k |-> "secure", v |-> JSTrue],
        [k |-> "expires", v |-> Str(S(<<"E">>))]>>>>,
    <<Str(S(<<"a">>)), Str(<<HighSur>>), <<>>>> }

\* The calls of setItem of SpecSet: every value under an empty key, a plain
\* key and a key with '='.
ManyArgs ==
  BadArgs \cup
  ({Str(k) : k \in Keys \ {S(<<"b">>), S(<<"a", "b">>)}}
     \X {Str(v) : v \in WellFormed \cup IllFormed}
     \X (FewOpts \ {<<[k |-> "path", v |-> Str(S(<<"/">>))]>>}))

\* The options of SpecFmt: every object of at most MaxOpts of these
\* properties, in every insertion order.
OptPairs ==
  { [k |-> "expires", v |-> Str(S(<<"E">>))],
    [k |-> "path", v |-> Str(S(<<"/">>))],
    [k |-> "domain", v |-> Str(S(<<"x">>))],
    [k |-> "secure", v |-> JSTrue],
    [k |-> "secure", v |-> JSFalse],
    [k |-> "maxAge", v |-> Num42] }

AllOpts ==
  { o \in SeqsUpTo(OptPairs, MaxOpts) :
      \A i, j \in 1..Len(o) : i # j => o[i].k # o[j].k }

\* The calls of setItem of SpecFmt.
FmtArgs ==
  {Str(S(<<"k">>))} \X {Str(S(<<"v">>)), Str(S(<<";", " ">>))} \X AllOpts

-----------------------------------------------------------------------------
(* The state machine: bake, then any sequence of calls.                    *)

NoCall == [name |-> "bake", key |-> Undefined, value |-> Undefined, opts |-> <<>>]

\* The store bake returns, before any call.
Fresh ==
  /\ op = NoCall
  /\ ret = Undefined
  /\ threw = FALSE
  /\ cookies = <<>>
  /\ written = <<>>
  /\ hookCalls = <<>>

\* The docs bake is given for the cookie line `line`: the line itself, an
\* object holding it, and docs without a line (nothing, null, false, objects
\* without a string cookie, a number and true, for which bake raises).
Docs(line) ==
  { Str(line), Obj(Str(line)), Undefined, Null, JSFalse, Obj(Undefined),
    Obj(Num42), Num42, JSTrue }

\* The global documents: none, one holding the line, one without cookie.
Documents(line) == { Undefined, Obj(Str(line)), Obj(Undefined) }

\* A store over a cookie line of entries, or over a read hook yielding them
\* (and then over no line): every bake(doc, options) that returns.
Init ==
  /\ options \in [read : BOOLEAN, write : BOOLEAN]
  /\ \E seed \in Seeds :
       LET line == IF options.read THEN <<>> ELSE Join(seed)
       IN  /\ \E doc \in Docs(line), document \in Documents(line) :
                /\ bake(doc, document).ok
                /\ cookie = bake(doc, document).cookie
           /\ hookEntries = IF options.read THEN seed ELSE <<>>
  /\ Fresh

\* The state after a call with outcome r.
Return(r) ==
  /\ cookie' = r.cookie
  /\ ret' = r.ret
  /\ threw' = r.threw
  /\ written' = r.written
  /\ hookCalls' = r.hook
  /\ UNCHANGED <<options, hookEntries>>

GetItem ==
  \E key \in Keys :
    /\ op' = [name |-> "getItem", key |-> Str(key), value |-> Undefined,
              opts |-> <<>>]
    /\ cookies' = read
    /\ Return(getItem(key))

SetItemIn(Args) ==
  \E a \in Args :
    /\ op' = [name |-> "setItem", key |-> a[1], value |-> a[2], opts |-> a[3]]
    /\ cookies' = <<>>
    /\ Return(setItem(a[1], a[2], a[3]))

SetItem == SetItemIn(SomeArgs)

RemoveItem ==
  \E key \in Keys :
    /\ op' = [name |-> "removeItem", key |-> Str(key), value |-> Undefined,
              opts |-> <<>>]
    /\ cookies' = <<>>
    /\ Return(removeItem(cookie, key))

Clear ==
  /\ op' = [name |-> "clear", key |-> Undefined, value |-> Undefined,
            opts |-> <<>>]
  /\ cookies' = read
  /\ Return(clear)

Next == GetItem \/ SetItem \/ RemoveItem \/ Clear

Spec == Init /\ [][Next]_vars

\* A store without document and without read hook.
InitEmpty ==
  /\ options \in [read : {FALSE}, write : BOOLEAN]
  /\ \E doc \in {Undefined, Null, Str(<<>>), Obj(Undefined)} :
       /\ bake(doc, Undefined).ok
       /\ cookie = bake(doc, Undefined).cookie
  /\ hookEntries = <<>>
  /\ Fresh

\* setItem with every key and value, and getItem.
SetItemMany == SetItemIn(ManyArgs)

NextSet == SetItemMany \/ GetItem

SpecSet == InitEmpty /\ [][NextSet]_vars

\* setItem with every options object.
SetItemFmt == SetItemIn(FmtArgs)

NextFmt == SetItemFmt

SpecFmt == InitEmpty /\ [][NextFmt]_vars

-----------------------------------------------------------------------------
(* The claims.                                                             *)

NoHooks == ~options.read /\ ~options.write

HasEquals(e) == IndexOf(e, Equals) # -1

\* A string without unpaired surrogate.
WellFormedString(s) ==
  \A i \in 1..Len(s) :
    /\ IsHighSurrogate(s[i]) => (i < Len(s) /\ IsLowSurrogate(s[i + 1]))
    /\ IsLowSurrogate(s[i]) => (i > 1 /\ IsHighSurrogate(s[i - 1]))

\* A step getItem(k) right after setItem(k, v, opts) of strings, no hooks.
SetThenGet ==
  /\ NoHooks
  /\ op.name = "setItem" /\ op.key.t = "string" /\ op.value.t = "string"
  /\ op'.name = "getItem" /\ op'.key = op.key

\* C1 as stated: on a store without hooks, for every string key and every
\* string value, getItem(k) right after setItem(k, v, opts) returns v.
C1_RoundTripAnyString ==
  [][SetThenGet => (~threw /\ ~threw' /\ ret' = op.value)]_vars

\* C1, amended: on a store without hooks, for every string key and value
\* without unpaired surrogate (values with ';', '=', white space, '%' and
\* non-ASCII characters included) and any options, setItem(k, v, opts)
\* returns and getItem(k) right after it returns exactly v.
C1_RoundTrip ==
  [][(SetThenGet /\ WellFormedString(op.key.s) /\ WellFormedString(op.value.s))
       => (~threw /\ ~threw' /\ ret' = op.value)]_vars

C1_Witness ==
  /\ NoHooks
  /\ op.name = "getItem" /\ op.key = Str(S(<<"a", "=">>))
  /\ ret = Str(S(<<";", " ">>))

\* The decoded names of the entries name=value of the array cs.
PresentNames(cs) ==
  { decodeURIComponent(SplitEqFirst(cs[i])).s :
      i \in { j \in 1..Len(cs) :
                HasEquals(cs[j]) /\ decodeURIComponent(SplitEqFirst(cs[j])).ok } }

ClearedWithWriteHook ==
  op.name = "clear" /\ options.write /\ ~options.read

\* C2 as stated: after clear() returned on a store seeded with a cookie line
\* and with a collecting write hook, getItem(n) returns no value for every
\* name n that was present before.
C2_ClearEmptiesAll ==
  (ClearedWithWriteHook /\ ~threw) =>
    \A n \in PresentNames(cookies) : getItem(n).ret = Undefined

\* C2, amended: on a store seeded with a cookie line and with a collecting
\* write hook, clear() hands the removals to the hook and leaves the cookie
\* line as it was: the entries read after it are the entries it read, so
\* getItem(n) returns for every name what it returned before; and when
\* clear() returned, the hook got a removal of every name that was present.
C2_ClearLeavesStoreToHook ==
  ClearedWithWriteHook =>
    /\ read = cookies
    /\ \A n \in PresentNames(cookies) : getItem(n) = getItemFrom(cookies, 1, n)
    /\ ~threw =>
         \A n \in PresentNames(cookies) :
           \E i \in 1..Len(hookCalls) :
             hookCalls[i].meta.remove /\ hookCalls[i].meta.key = n

C2_Witness ==
  /\ ClearedWithWriteHook /\ ~threw
  /\ PresentNames(cookies) = {S(<<"a">>), S(<<"b">>)}
  /\ getItem(S(<<"a">>)).ret = Str(S(<<"1">>))
  /\ getItem(S(<<"b">>)).ret = Str(S(<<"2">>))

\* The name clear() takes from an entry.
EntryName(e) == decodeURIComponent(SplitEqFirst(e))

\* The write() call of a removal of the name n.
Removal(n) ==
  [cookie |-> n \o ExpiredTail,
   meta |-> [remove |-> TRUE, value |-> <<>>, opts |-> <<>>, key |-> n]]

\* C3 as stated: clear() makes as many write calls as there are distinct
\* names among the entries it read.
C3_OnePerDistinctName ==
  (op.name = "clear" /\ ~threw) =>
    Len(written) = Cardinality({EntryName(cookies[i]).s : i \in 1..Len(cookies)})

\* C3, amended: clear() reads the entries once and makes one removal write
\* call per entry of that array, in order, repeated names included, up to
\* the first entry whose name is no percent-encoding, where it raises; each
\* call carries the removal metadata, and the calls follow the array read at
\* the start even when a write changed the cookie line.
C3_OnePerEntry ==
  op.name = "clear" =>
    LET n == Len(written)
    IN  /\ n <= Len(cookies)
        /\ \A i \in 1..n :
             /\ EntryName(cookies[i]).ok
             /\ written[i] = Removal(EntryName(cookies[i]).s)
        /\ threw <=> n < Len(cookies)
        /\ n < Len(cookies) => ~EntryName(cookies[n + 1]).ok
        /\ hookCalls = IF options.write THEN written ELSE <<>>

C3_Witness ==
  /\ op.name = "clear" /\ NoHooks /\ ~threw
  /\ Len(written) = Len(cookies) /\ Len(cookies) >= 2
  /\ EntryName(cookies[1]).s = EntryName(cookies[2]).s
  /\ splitter(cookie) # cookies

\* C4: whenever the key or the value given to setItem is no string, setItem
\* returns false, calls neither the write hook nor assigns the cookie line,
\* which stays as it was, and raises nothing.
C4_InvalidInput ==
  [][(op'.name = "setItem" /\ (op'.key.t # "string" \/ op'.value.t # "string"))
       => /\ ret' = JSFalse
          /\ ~threw'
          /\ written' = <<>>
          /\ hookCalls' = <<>>
          /\ cookie' = cookie]_vars

C4_Witness ==
  /\ op.name = "setItem" /\ op.key.t = "string" /\ op.value = Null
  /\ ret = JSFalse
  /\ cookie # <<>>

\* C5 as stated: getItem and clear never raise, whatever the entries are.
C5_NeverRaises ==
  op.name \in {"getItem", "clear"} => ~threw

\* The attributes in the order of the specification, and their names.
AttributeOrder == <<"expires", "path", "domain", "secure">>

AttributeName ==
  [expires |-> S(<<"e", "x", "p", "i", "r", "e", "s">>),
   path    |-> S(<<"p", "a", "t", "h">>),
   domain  |-> S(<<"d", "o", "m", "a", "i", "n">>),
   secure  |-> S(<<"s", "e", "c", "u", "r", "e">>)]

ExpectedSegments(opts) ==
  LET Supplied(a) ==
        IF a = "secure" THEN Truthy(GetOpt(opts, a)) ELSE HasOpt(opts, a)
      kept == SelectSeq(AttributeOrder, Supplied)
  IN  [i \in 1..Len(kept) |->
         IF kept[i] = "secure" THEN AttributeName[kept[i]]
         ELSE AttributeName[kept[i]] \o <<Equals>> \o ToStr(GetOpt(opts, kept[i]))]

\* C6: for a string key and value the string setItem formats is
\* encodedKey=encodedValue followed by the attributes expires, path, domain
\* and secure, each as "; name=value" ("; secure" for secure), in that order
\* whatever the order of the properties of opts, each present exactly when
\* its option was supplied (secure: when opts.secure is truthy), and nothing
\* else.
C6_AttributeOrder ==
  (op.name = "setItem" /\ op.key.t = "string" /\ op.value.t = "string") =>
    /\ ~threw
    /\ Len(written) = 1
    /\ written[1].cookie =
         Join(<<encodeURIComponent(op.key.s).s \o <<Equals>>
                  \o encodeURIComponent(op.value.s).s>>
              \o ExpectedSegments(op.opts))

C6_Witness ==
  /\ op.name = "setItem"
  /\ Len(op.opts) = 4
  /\ op.opts[1].k = "secure" /\ op.opts[1].v = JSTrue
  /\ op.opts[2].k = "domain" /\ op.opts[3].k = "path"
  /\ op.opts[4].k = "expires"
  /\ written[1].cookie =
       S(<<"k", "=", "v", ";", " ", "e", "x", "p", "i", "r", "e", "s", "=", "E",
           ";", " ", "p", "a", "t", "h", "=", "/", ";", " ", "d", "o", "m",
           "a", "i", "n", "=", "x", ";", " ", "s", "e", "c", "u", "r", "e">>)

\* C7 as stated: over entries that all contain '=', getItem(key) returns the
\* decoded text after the first '=' of the first entry whose decoded text
\* before its first '=' is key, and undefined exactly when there is none.
C7_FirstWins ==
  (op.name = "getItem" /\ \A i \in 1..Len(cookies) : HasEquals(cookies[i])) =>
    LET Named(i) ==
          /\ decodeURIComponent(SplitEqFirst(cookies[i])).ok
          /\ decodeURIComponent(SplitEqFirst(cookies[i])).s = op.key.s
        After(i) ==
          decodeURIComponent(
            SubSeq(cookies[i], IndexOf(cookies[i], Equals) + 2, Len(cookies[i])))
    IN  /\ ~threw
        /\ IF \E i \in 1..Len(cookies) : Named(i)
           THEN LET first == CHOOSE i \in 1..Len(cookies) :
                               Named(i) /\ \A j \in 1..(i - 1) : ~Named(j)
                IN  After(first).ok /\ ret = Str(After(first).s)
           ELSE ret = Undefined

\* C8 as stated: on an empty store without read hook getItem(key) returns
\* undefined for every string key.
C8_Absence ==
  (op.name = "getItem" /\ ~options.read /\ cookie = <<>>) =>
    (~threw /\ ret = Undefined)

\* C9: removeItem(key) commits exactly key, unencoded, followed by
\* '=;expires=Thu, 01 Jan 1970 00:00:01 GMT;': a write hook gets one call
\* with that string and {remove: true, value: '', key: key, opts: {}} and
\* the cookie line stays as it was; without hook the cookie line becomes
\* that string, which is returned.
C9_Removal ==
  [][op'.name = "removeItem" =>
       LET c == op'.key.s \o ExpiredTail
           call == [cookie |-> c,
                    meta |-> [remove |-> TRUE, value |-> <<>>, opts |-> <<>>,
                              key |-> op'.key.s]]
       IN  /\ ~threw'
           /\ written' = <<call>>
           /\ options.write => (hookCalls' = <<call>> /\ cookie' = cookie)
           /\ ~options.write =>
                (hookCalls' = <<>> /\ cookie' = c /\ ret' = Str(c))]_vars

C9_Witness ==
  /\ op.name = "removeItem" /\ op.key = Str(S(<<"a", "=">>))
  /\ options.write
  /\ Len(hookCalls) = 1
  /\ cookie # <<>>

\* C10 as stated: an entry without '=' counts, decoded, as the name, and
\* getItem of that name returns the empty string.
C10_EntryWithoutEquals ==
  (/\ op.name = "getItem"
   /\ Len(cookies) >= 1
   /\ ~HasEquals(cookies[1])
   /\ decodeURIComponent(cookies[1]).ok
   /\ decodeURIComponent(cookies[1]).s = op.key.s)
    => (~threw /\ ret = Str(<<>>))

====
